---- MODULE Spec2Model ----
(***************************************************************************)
(* Model of src/output_settings.rs: the OutputSettingsBuilder call chain   *)
(* (new, scale, scale_non_square, theme, pixel_spacing, build) and the     *)
(* geometry of the built OutputSettings (pixel_pitch, output_to_display).  *)
(*                                                                         *)
(* A u32 is kept at its full width as two 16-bit limbs <<hi, lo>>, an i32  *)
(* is an integer in -2^31 .. 2^31-1.  Option<T> is a sequence of length    *)
(* zero (None) or one (Some).  A call that panics yields Panic(msg).       *)
(***************************************************************************)
EXTENDS Integers, Sequences, FiniteSets

VARIABLES
    builder,          \* Option<OutputSettingsBuilder>: None once consumed
    settings,         \* Option<OutputSettings>: Some after build()
    pitch,            \* Option<Point>: the last value pixel_pitch() returned
    output_point,     \* Option<Point>: the last argument of output_to_display
    display_point,    \* Option<Point>: the last value output_to_display returned
    panic,            \* the panic message that ended the program, or NoPanic
    calls,            \* the builder calls made so far, in order
    overflow_checks   \* build profile: TRUE = arithmetic overflow panics (debug)

vars == <<builder, settings, pitch, output_point, display_point, panic, calls,
          overflow_checks>>

---------------------------------------------------------------------------
\* Bounds of the model.
MaxCalls == 3
MaxScale == 3
MaxSpacing == 1
MaxCoord == 10

\* Widths of the integer types.
Limb == 65536
I32Max == 2147483647
I32Min == -I32Max - 1

---------------------------------------------------------------------------
\* Option, Result of a call.
None == <<>>
Some(v) == <<v>>
IsSome(o) == Len(o) = 1
Unwrap(o) == o[1]

NoPanic == "none"
Ok(v) == [ok |-> TRUE, val |-> v]
Panic(m) == [ok |-> FALSE, msg |-> m]

---------------------------------------------------------------------------
\* u32 arithmetic at full width.
U32(n) == <<n \div Limb, n % Limb>>
U32Zero == <<0, 0>>
U32Max == <<Limb - 1, Limb - 1>>
U32IsZero(a) == a = U32Zero

\* a + b modulo 2^32
wrapping_add(a, b) ==
    LET lo == a[2] + b[2]
        hi == a[1] + b[1] + (lo \div Limb)
    IN  <<hi % Limb, lo % Limb>>

\* whether a + b does not fit a u32
add_overflows(a, b) ==
    (a[1] + b[1] + ((a[2] + b[2]) \div Limb)) \div Limb > 0

\* The u32 `+` of the source: panics on overflow when the build has overflow
\* checks, wraps otherwise.
u32_add(a, b) ==
    IF overflow_checks /\ add_overflows(a, b)
    THEN Panic("attempt to add with overflow")
    ELSE Ok(wrapping_add(a, b))

\* `as i32`: the same 32 bits read as two's complement.
as_i32(a) ==
    IF a[1] < Limb \div 2
    THEN a[1] * Limb + a[2]
    ELSE (a[1] - Limb) * Limb + a[2]

\* i32 `/`: truncates toward zero.  Numerators are never I32Min here.
Abs(n) == IF n < 0 THEN -n ELSE n
TruncDiv(a, b) ==
    IF b = I32Min THEN (IF a = I32Min THEN 1 ELSE 0)
    ELSE LET q == Abs(a) \div Abs(b)
         IN  IF (a < 0) = (b < 0) THEN q ELSE -q

Size(w, h) == [width |-> w, height |-> h]
Point(px, py) == [x |-> px, y |-> py]

\* Point::component_div: x / other.x, then y / other.y, with the panics of
\* i32 division.
i32_div(a, b) ==
    IF b = 0 THEN Panic("attempt to divide by zero")
    ELSE IF a = I32Min /\ b = -1 THEN Panic("attempt to divide with overflow")
    ELSE Ok(TruncDiv(a, b))

component_div(p, other) ==
    LET qx == i32_div(p.x, other.x)
        qy == i32_div(p.y, other.y)
    IN  IF ~qx.ok THEN qx
        ELSE IF ~qy.ok THEN qy
        ELSE Ok(Point(qx.val, qy.val))

---------------------------------------------------------------------------
\* BinaryColorTheme: an opaque enumeration whose default is the no-theme variant.
DefaultTheme == "Default"
Themes == {DefaultTheme, "LcdWhite", "OledBlue"}

---------------------------------------------------------------------------
\* OutputSettingsBuilder

\* #[derive(Default)]: both options None, theme the default variant.
new == [scale |-> None, pixel_spacing |-> None, theme |-> DefaultTheme]

\* Option::get_or_insert: keeps a Some, fills a None.
get_or_insert(o, v) == IF IsSome(o) THEN o ELSE Some(v)

\* Option::unwrap_or
unwrap_or(o, v) == IF IsSome(o) THEN Unwrap(o) ELSE v

\* scale as it would be if a zero were clamped to 1 instead of asserted.
scale_clamped(self, factor) ==
    Ok([self EXCEPT !.scale = Some(IF U32IsZero(factor) THEN Size(U32(1), U32(1))
                                   ELSE Size(factor, factor))])

\* scale as it would be with theme's get_or_insert.
scale_if_unset(self, factor) ==
    IF U32IsZero(factor) THEN Panic("scale must be > 0")
    ELSE Ok([self EXCEPT !.scale = get_or_insert(self.scale, Size(factor, factor))])

scale(self, factor) ==
    IF U32IsZero(factor) THEN Panic("scale must be > 0")
    ELSE Ok([self EXCEPT !.scale = Some(Size(factor, factor))])

scale_non_square(self, sz) ==
    IF U32IsZero(sz.width) THEN Panic("width must be > 0")
    ELSE IF U32IsZero(sz.height) THEN Panic("height must be > 0")
    ELSE Ok([self EXCEPT !.scale = Some(sz)])

\* theme as it would be with plain assignments instead of get_or_insert.
theme_overwrites(self, t) ==
    Ok([self EXCEPT !.theme = t,
                    !.scale = Some(Size(U32(3), U32(3))),
                    !.pixel_spacing = Some(U32(1))])

\* theme as it would be without the implied spacing.
theme_without_spacing(self, t) ==
    Ok([self EXCEPT !.theme = t,
                    !.scale = get_or_insert(self.scale, Size(U32(3), U32(3)))])

theme(self, t) ==
    Ok([self EXCEPT !.theme = t,
                    !.scale = get_or_insert(self.scale, Size(U32(3), U32(3))),
                    !.pixel_spacing = get_or_insert(self.pixel_spacing, U32(1))])

\* pixel_spacing as it would be if it only filled an unset spacing.
pixel_spacing_if_unset(self, s) ==
    Ok([self EXCEPT !.pixel_spacing = get_or_insert(self.pixel_spacing, s)])

pixel_spacing(self, s) ==
    Ok([self EXCEPT !.pixel_spacing = Some(s)])

\* build as it would be with Size::zero() for an unset scale.
build_zero_scale(self) ==
    [scale |-> unwrap_or(self.scale, Size(U32(0), U32(0))),
     pixel_spacing |-> unwrap_or(self.pixel_spacing, U32(0)),
     theme |-> self.theme]

build(self) ==
    [scale |-> unwrap_or(self.scale, Size(U32(1), U32(1))),
     pixel_spacing |-> unwrap_or(self.pixel_spacing, U32(0)),
     theme |-> self.theme]

\* impl Default for OutputSettings
default == build(new)

---------------------------------------------------------------------------
\* OutputSettings

\* pixel_pitch as it would be if it returned the scale alone.
pixel_pitch_without_spacing(self) ==
    Ok(Point(as_i32(self.scale.width), as_i32(self.scale.height)))

pixel_pitch(self) ==
    LET w == u32_add(self.scale.width, self.pixel_spacing)
        h == u32_add(self.scale.height, self.pixel_spacing)
    IN  IF ~w.ok THEN w
        ELSE IF ~h.ok THEN h
        ELSE Ok(Point(as_i32(w.val), as_i32(h.val)))

\* output_to_display as it would be if both axes were divided by the x pitch.
output_to_display_by_width(self, p) ==
    LET pp == pixel_pitch(self)
    IN  IF ~pp.ok THEN pp ELSE component_div(p, Point(pp.val.x, pp.val.x))

output_to_display(self, p) ==
    LET pp == pixel_pitch(self)
    IN  IF ~pp.ok THEN pp ELSE component_div(p, pp.val)

---------------------------------------------------------------------------
\* Arguments the calls are made with.
ScaleArgs == {U32(0), U32(1), U32(5)}
NonSquareArgs == {Size(U32(0), U32(2)), Size(U32(2), U32(0)), Size(U32(0), U32(0)),
                  Size(U32(2), U32(3)), Size(U32Max, U32(2))}
SpacingArgs == {U32(0), U32(2), U32(I32Max), U32Max}
ProbePoints == {Point(0, 0), Point(10, 7), Point(-1, 3)}

Coords == (-MaxCoord) .. MaxCoord
Points == {Point(px, py) : px \in Coords, py \in Coords}
GeomDims == {U32(n) : n \in 1 .. MaxScale} \cup {U32Max}
GeomSpacings == {U32(n) : n \in 0 .. MaxSpacing} \cup {U32(I32Max), U32Max}

---------------------------------------------------------------------------
\* State machine

Init ==
    /\ builder = Some(new)
    /\ settings = None
    /\ pitch = None
    /\ output_point = None
    /\ display_point = None
    /\ panic = NoPanic
    /\ calls = <<>>
    /\ overflow_checks \in BOOLEAN

\* A builder method takes the builder by value: it returns the updated
\* builder, or panics and the builder is gone.
Call(c, r) ==
    /\ calls' = Append(calls, c)
    /\ IF r.ok
       THEN builder' = Some(r.val) /\ panic' = NoPanic
       ELSE builder' = None /\ panic' = r.msg
    /\ UNCHANGED <<settings, pitch, output_point, display_point, overflow_checks>>

CanCall == panic = NoPanic /\ IsSome(builder) /\ Len(calls) < MaxCalls

ScaleCall ==
    /\ CanCall
    /\ \E f \in ScaleArgs :
          Call([op |-> "scale", arg |-> f], scale(Unwrap(builder), f))

ScaleNonSquareCall ==
    /\ CanCall
    /\ \E sz \in NonSquareArgs :
          Call([op |-> "scale_non_square", arg |-> sz],
               scale_non_square(Unwrap(builder), sz))

ThemeCall ==
    /\ CanCall
    /\ \E t \in Themes :
          Call([op |-> "theme", arg |-> t], theme(Unwrap(builder), t))

PixelSpacingCall ==
    /\ CanCall
    /\ \E s \in SpacingArgs :
          Call([op |-> "pixel_spacing", arg |-> s],
               pixel_spacing(Unwrap(builder), s))

BuildCall ==
    /\ panic = NoPanic
    /\ IsSome(builder)
    /\ settings' = Some(build(Unwrap(builder)))
    /\ builder' = None
    /\ UNCHANGED <<pitch, output_point, display_point, panic, calls, overflow_checks>>

PixelPitchCall ==
    /\ panic = NoPanic
    /\ IsSome(settings)
    /\ LET r == pixel_pitch(Unwrap(settings))
       IN  IF r.ok
           THEN pitch' = Some(r.val) /\ panic' = NoPanic
           ELSE pitch' = None /\ panic' = r.msg
    /\ UNCHANGED <<builder, settings, output_point, display_point, calls,
                   overflow_checks>>

\* output_to_display takes &self and the settings never change, so a second
\* translation starts from the state the first one started from: one per run.
OutputToDisplayCall(P) ==
    /\ panic = NoPanic
    /\ IsSome(settings)
    /\ output_point = None
    /\ \E p \in P :
          LET r == output_to_display(Unwrap(settings), p)
          IN  /\ output_point' = Some(p)
              /\ IF r.ok
                 THEN display_point' = Some(r.val) /\ panic' = NoPanic
                 ELSE display_point' = None /\ panic' = r.msg
    /\ UNCHANGED <<builder, settings, pitch, calls, overflow_checks>>

Next ==
    \/ ScaleCall
    \/ ScaleNonSquareCall
    \/ ThemeCall
    \/ PixelSpacingCall
    \/ BuildCall
    \/ PixelPitchCall
    \/ OutputToDisplayCall(ProbePoints)

Spec == Init /\ [][Next]_vars

\* The geometry alone: any settings value the builder accepts, built by
\* new().scale_non_square(sz).pixel_spacing(s).theme(t).build().
InitGeom ==
    /\ \E w \in GeomDims, h \in GeomDims, s \in GeomSpacings, t \in Themes :
          LET b1 == scale_non_square(new, Size(w, h)).val
              b2 == pixel_spacing(b1, s).val
              b3 == theme(b2, t).val
          IN  /\ settings = Some(build(b3))
              /\ calls = << [op |-> "scale_non_square", arg |-> Size(w, h)],
                            [op |-> "pixel_spacing", arg |-> s],
                            [op |-> "theme", arg |-> t] >>
    /\ builder = None
    /\ pitch = None
    /\ output_point = None
    /\ display_point = None
    /\ panic = NoPanic
    /\ overflow_checks \in BOOLEAN

NextGeom ==
    \/ PixelPitchCall
    \/ OutputToDisplayCall(Points)

SpecGeom == InitGeom /\ [][NextGeom]_vars

---------------------------------------------------------------------------
\* Vocabulary of the properties.

CallOf(name, a) == [op |-> name, arg |-> a]
Built == IsSome(settings)
Configuring == IsSome(builder)
LastCall == calls[Len(calls)]
\* this step is a builder call named `name`
Step(name) == Len(calls') = Len(calls) + 1 /\ calls'[Len(calls')].op = name
Sq(n) == Size(U32(n), U32(n))

---------------------------------------------------------------------------
\* C1: a theme call never changes a scale or a pixel_spacing that is set when
\* it is made, whether set by a setter or by an earlier theme call; so
\* new().scale(5).theme(T).build().scale = (5,5) and
\* new().pixel_spacing(0).theme(T).build().pixel_spacing = 0.
C1_ThemeKeepsSetFields ==
    /\ [][Step("theme") =>
            /\ IsSome(builder')
            /\ IsSome(Unwrap(builder).scale) =>
                  Unwrap(builder').scale = Unwrap(builder).scale
            /\ IsSome(Unwrap(builder).pixel_spacing) =>
                  Unwrap(builder').pixel_spacing = Unwrap(builder).pixel_spacing
         ]_vars
    /\ [](\A t \in Themes :
            /\ Built /\ calls = <<CallOf("scale", U32(5)), CallOf("theme", t)>>
                  => Unwrap(settings).scale = Sq(5)
            /\ Built /\ calls = <<CallOf("pixel_spacing", U32(0)), CallOf("theme", t)>>
                  => Unwrap(settings).pixel_spacing = U32(0))

C1_Witness ==
    /\ Built
    /\ Len(calls) = 3
    /\ calls[1] = CallOf("scale", U32(5))
    /\ calls[2] = CallOf("pixel_spacing", U32(0))
    /\ calls[3].op = "theme"
    /\ Unwrap(settings).scale = Sq(5)
    /\ Unwrap(settings).pixel_spacing = U32(0)

---------------------------------------------------------------------------
\* C2 as stated: of pixel_spacing(s) and theme(T) on a fresh builder the first
\* call decides the built pixel_spacing: s when pixel_spacing came first, 1
\* when theme came first.
C2_FirstCallWins ==
    \A s \in SpacingArgs, t \in Themes :
       /\ Built /\ calls = <<CallOf("pixel_spacing", s), CallOf("theme", t)>>
             => Unwrap(settings).pixel_spacing = s
       /\ Built /\ calls = <<CallOf("theme", t), CallOf("pixel_spacing", s)>>
             => Unwrap(settings).pixel_spacing = U32(1)

\* C2 amended: the built pixel_spacing is s in both orders: theme leaves a
\* set spacing alone, and pixel_spacing replaces the 1 an earlier theme put.
C2_ExplicitSpacingWins ==
    \A s \in SpacingArgs, t \in Themes :
       /\ Built /\ calls = <<CallOf("pixel_spacing", s), CallOf("theme", t)>>
             => Unwrap(settings).pixel_spacing = s
       /\ Built /\ calls = <<CallOf("theme", t), CallOf("pixel_spacing", s)>>
             => Unwrap(settings).pixel_spacing = s

C2_Witness ==
    /\ Built
    /\ Len(calls) = 2
    /\ calls[1].op = "theme"
    /\ calls[2] = CallOf("pixel_spacing", U32(2))
    /\ Unwrap(settings).pixel_spacing = U32(2)

---------------------------------------------------------------------------
\* C3: theme(T) on a fresh builder builds {scale (3,3), pixel_spacing 1,
\* theme T} for every variant T, the default one included; a theme call that
\* finds only one of scale and pixel_spacing unset fills that one alone.
C3_ThemeDefaults ==
    /\ [](\A t \in Themes :
            Built /\ calls = <<CallOf("theme", t)>>
               => settings = Some([scale |-> Sq(3), pixel_spacing |-> U32(1),
                                   theme |-> t]))
    /\ [][Step("theme") =>
            LET old == Unwrap(builder)
                upd == Unwrap(builder')
            IN  /\ IsSome(builder')
                /\ upd.theme = LastCall'.arg
                /\ upd.scale = IF old.scale = None THEN Some(Sq(3)) ELSE old.scale
                /\ upd.pixel_spacing = IF old.pixel_spacing = None THEN Some(U32(1))
                                        ELSE old.pixel_spacing
         ]_vars

C3_Witness ==
    /\ Built
    /\ calls = <<CallOf("theme", DefaultTheme)>>
    /\ settings = Some([scale |-> Sq(3), pixel_spacing |-> U32(1),
                         theme |-> DefaultTheme])

---------------------------------------------------------------------------
\* C4: scale(0), scale_non_square((0,h)) and scale_non_square((w,0)) panic
\* from every builder state: no builder comes back and nothing is ever
\* built from a clamped or default value; with positive arguments the two
\* calls never fail.
AssertPanics == {"scale must be > 0", "width must be > 0", "height must be > 0"}

ExpectedPanic(c) ==
    IF c.op = "scale" /\ c.arg = U32Zero THEN "scale must be > 0"
    ELSE IF c.op = "scale_non_square" /\ c.arg.width = U32Zero THEN "width must be > 0"
    ELSE IF c.op = "scale_non_square" /\ c.arg.height = U32Zero THEN "height must be > 0"
    ELSE NoPanic

C4_ZeroScalePanics ==
    calls # <<>> =>
       IF ExpectedPanic(LastCall) # NoPanic
       THEN builder = None /\ settings = None /\ panic = ExpectedPanic(LastCall)
       ELSE panic \notin AssertPanics /\ (Configuring \/ Built)

C4_Witness ==
    /\ Len(calls) = 3
    /\ calls[2].op = "theme"
    /\ LastCall = CallOf("scale", U32Zero)
    /\ panic = "scale must be > 0"
    /\ builder = None

---------------------------------------------------------------------------
\* C5: after any sequence of successful configuration calls build() can be
\* called and returns settings with scale.width > 0, scale.height > 0 and
\* pixel_spacing >= 0; a scale no call set is (1,1), a pixel_spacing no call
\* set is 0; new().build() and OutputSettings::default() are
\* {scale (1,1), pixel_spacing 0, no theme}.
IsU32(a) == a \in (0 .. Limb - 1) \X (0 .. Limb - 1)
Made(ops) == \E i \in 1 .. Len(calls) : calls[i].op \in ops

C5_BuildResolves ==
    /\ (Configuring /\ panic = NoPanic) => ENABLED BuildCall
    /\ Built =>
          LET st == Unwrap(settings)
          IN  /\ panic \notin AssertPanics
              /\ IsU32(st.scale.width) /\ st.scale.width # U32Zero
              /\ IsU32(st.scale.height) /\ st.scale.height # U32Zero
              /\ IsU32(st.pixel_spacing)
              /\ ~Made({"scale", "scale_non_square", "theme"}) => st.scale = Sq(1)
              /\ ~Made({"pixel_spacing", "theme"}) => st.pixel_spacing = U32(0)
              /\ calls = <<>> =>
                    /\ st = [scale |-> Sq(1), pixel_spacing |-> U32(0),
                             theme |-> DefaultTheme]
                    /\ st = default

C5_Witness ==
    /\ Built
    /\ calls = <<CallOf("pixel_spacing", U32(2))>>
    /\ Unwrap(settings).scale = Sq(1)

---------------------------------------------------------------------------
\* C8: a setter changes its own field only and the last call wins: scale(f)
\* sets scale to (f,f), scale_non_square(sz) sets it to sz, whatever the
\* scale was, and both keep pixel_spacing and theme; pixel_spacing(s) sets
\* pixel_spacing to s and keeps scale and theme.  So new().scale(f).build()
\* is {scale (f,f), pixel_spacing 0, no theme}.
C8_SettersOwnField ==
    /\ [][LET old == Unwrap(builder)
              upd == Unwrap(builder')
              a == LastCall'.arg
          IN  /\ Step("scale") /\ IsSome(builder') =>
                    /\ upd.scale = Some(Size(a, a))
                    /\ upd.pixel_spacing = old.pixel_spacing
                    /\ upd.theme = old.theme
              /\ Step("scale_non_square") /\ IsSome(builder') =>
                    /\ upd.scale = Some(a)
                    /\ upd.pixel_spacing = old.pixel_spacing
                    /\ upd.theme = old.theme
              /\ Step("pixel_spacing") =>
                    /\ IsSome(builder')
                    /\ upd.pixel_spacing = Some(a)
                    /\ upd.scale = old.scale
                    /\ upd.theme = old.theme
         ]_vars
    /\ [](\A f \in ScaleArgs \ {U32Zero} :
            Built /\ calls = <<CallOf("scale", f)>>
               => settings = Some([scale |-> Size(f, f), pixel_spacing |-> U32(0),
                                   theme |-> DefaultTheme]))

C8_Witness ==
    /\ Configuring
    /\ Len(calls) = 2
    /\ calls[1].op = "theme"
    /\ calls[2] = CallOf("scale", U32(5))
    /\ Unwrap(builder).scale = Some(Sq(5))
    /\ Unwrap(builder).pixel_spacing = Some(U32(1))

---------------------------------------------------------------------------
\* C9: whatever the builder calls were, both components of every pitch
\* pixel_pitch() returns are > 0, and neither pixel_pitch nor
\* output_to_display ever panics.
GeometryPanics == {"attempt to add with overflow", "attempt to divide by zero",
                   "attempt to divide with overflow"}

C9_PitchPositive ==
    /\ IsSome(pitch) => Unwrap(pitch).x > 0 /\ Unwrap(pitch).y > 0
    /\ panic \notin GeometryPanics

---------------------------------------------------------------------------
\* C6: for every scale (w,h) and pixel_spacing s the builder accepts,
\* pixel_pitch() returns the mathematical (w+s, h+s) and never fails.
\* The sum of two u32 is written in three limbs, most significant first.
MathSum(a, b) ==
    LET lo == a[2] + b[2]
        hi == a[1] + b[1] + (lo \div Limb)
    IN  <<hi \div Limb, hi % Limb, lo % Limb>>

\* an i32 is the number the limbs write
IsNumber(v, limbs) == v >= 0 /\ limbs = <<0, v \div Limb, v % Limb>>

C6_PitchIsSum ==
    /\ panic # "attempt to add with overflow"
    /\ IsSome(pitch) =>
          LET st == Unwrap(settings)
          IN  /\ IsNumber(Unwrap(pitch).x, MathSum(st.scale.width, st.pixel_spacing))
              /\ IsNumber(Unwrap(pitch).y, MathSum(st.scale.height, st.pixel_spacing))

---------------------------------------------------------------------------
\* C7: when the pixel pitch (pw,ph) of the settings has pw > 0 and ph > 0,
\* output_to_display maps a point (x,y) with x >= 0 and y >= 0 to
\* (x / pw, y / ph), each axis by its own pitch component.
C7_MapsByDivision ==
    (Built /\ IsSome(output_point)) =>
       LET pp == pixel_pitch(Unwrap(settings))
           p == Unwrap(output_point)
       IN  (pp.ok /\ pp.val.x > 0 /\ pp.val.y > 0 /\ p.x >= 0 /\ p.y >= 0)
              => /\ panic = NoPanic
                 /\ display_point = Some(Point(p.x \div pp.val.x, p.y \div pp.val.y))

C7_Witness ==
    /\ Built
    /\ Unwrap(settings).scale = Size(U32(3), U32(1))
    /\ Unwrap(settings).pixel_spacing = U32(1)
    /\ output_point = Some(Point(10, 10))
    /\ display_point = Some(Point(2, 5))

---------------------------------------------------------------------------
\* C10: output_to_display inverts the layout: with pitch (pw,ph) =
\* (scale.width + pixel_spacing, scale.height + pixel_spacing), both in
\* 1 .. 2^31-1, the point (px*pw + dx, py*ph + dy) with px, py >= 0,
\* 0 <= dx < pw and 0 <= dy < ph maps to (px,py), offsets in the spacing gap
\* included; and the same holds of whatever positive pitch pixel_pitch()
\* returns.
\* the number a u32 below 2^31 writes
Small(a) == a[1] < Limb \div 2
Num(a) == a[1] * Limb + a[2]
\* w + s is in 1 .. 2^31-1
FitsI32(w, s) == Small(w) /\ Small(s) /\ Num(w) <= I32Max - Num(s) /\ Num(w) + Num(s) > 0
\* x = q*n + d for some 0 <= d < n (written without the product q*n + n)
InCell(x, q, n) == q >= 0 /\ q * n <= x /\ x - q * n < n

C10_InvertsLayout ==
    (Built /\ IsSome(output_point)) =>
       LET st == Unwrap(settings)
           p == Unwrap(output_point)
       IN  /\ ( /\ FitsI32(st.scale.width, st.pixel_spacing)
                /\ FitsI32(st.scale.height, st.pixel_spacing)
                /\ p.x >= 0 /\ p.y >= 0 )
              => /\ IsSome(display_point)
                 /\ InCell(p.x, Unwrap(display_point).x,
                           Num(st.scale.width) + Num(st.pixel_spacing))
                 /\ InCell(p.y, Unwrap(display_point).y,
                           Num(st.scale.height) + Num(st.pixel_spacing))
           /\ LET pp == pixel_pitch(st)
              IN  (pp.ok /\ pp.val.x > 0 /\ pp.val.y > 0 /\ p.x >= 0 /\ p.y >= 0)
                     => /\ IsSome(display_point)
                        /\ InCell(p.x, Unwrap(display_point).x, pp.val.x)
                        /\ InCell(p.y, Unwrap(display_point).y, pp.val.y)

\* (7,4) with scale (3,3) and spacing 1: x is in the gap after pixel 1, y at
\* the origin of pixel 1.
C10_Witness ==
    /\ Built
    /\ Unwrap(settings).scale = Sq(3)
    /\ Unwrap(settings).pixel_spacing = U32(1)
    /\ output_point = Some(Point(7, 4))
    /\ display_point = Some(Point(1, 1))

====
